---- MODULE Spec2Model ----
(***************************************************************************)
(* Tutor state machine (backend/agent/machine.py), session context         *)
(* (backend/models/session.py) and the ProactiveTutor orchestrator         *)
(* (backend/agent/tutor.py).                                               *)
(*                                                                         *)
(* Specifications:                                                         *)
(*   MachineSpec  the TutorStateMachine API called on arbitrary contexts   *)
(*   AutoSpec     chains of get_next_auto_state() from arbitrary contexts  *)
(*   Spec         one session driven through start_session/process_input   *)
(***************************************************************************)
EXTENDS Integers, Sequences, FiniteSets, TLC

VARIABLES
    context,        \* SessionContext (record)
    now,            \* wall clock, in minutes
    current_assessment_index,   \* ProactiveTutor.current_assessment_index
    pc,             \* position of the turn in progress: "idle", "process", "question_return"
    after_drain,    \* what process_input still has to do once the drain returns
    depth,          \* nesting depth of _process_current_state in the running turn
    turn_result,    \* how the last turn ended: "none", "ok", "recursion_error"
    events,         \* events yielded by the running / last turn
    call,           \* MachineSpec: the TutorStateMachine call made and its result
    chain           \* AutoSpec: states visited by the current auto chain

vars == <<context, now, current_assessment_index, pc, after_drain, depth,
          turn_result, events, call, chain>>

tutorVars == <<current_assessment_index, pc, after_drain, depth, turn_result, events>>

----------------------------------------------------------------------------
(* Bounds *)

MaxSections == 2
MaxSubtopics == 2
MaxTime == 1
MaxQuestions == 1
MaxProgress == 3
MaxBreaks == 2
RecursionLimit == 6

----------------------------------------------------------------------------
(* models/enums.py: TutorState *)

IDLE == "idle"
COURSE_SETUP == "course_setup"
INITIAL_ASSESSMENT == "initial_assessment"
ASSESSMENT_REVIEW == "assessment_review"
LESSON_INTRODUCTION == "lesson_introduction"
CONCEPT_EXPLANATION == "concept_explanation"
EXAMPLE_DEMONSTRATION == "example_demonstration"
GUIDED_PRACTICE == "guided_practice"
CHECK_UNDERSTANDING == "check_understanding"
TOPIC_SUMMARY == "topic_summary"
LESSON_COMPLETE == "lesson_complete"
BREAK_SUGGESTION == "break_suggestion"
ANSWERING_QUESTION == "answering_question"
HANDLING_CONFUSION == "handling_confusion"
SESSION_COMPLETE == "session_complete"
SESSION_PAUSED == "session_paused"

TutorState ==
    { IDLE, COURSE_SETUP, INITIAL_ASSESSMENT, ASSESSMENT_REVIEW,
      LESSON_INTRODUCTION, CONCEPT_EXPLANATION, EXAMPLE_DEMONSTRATION,
      GUIDED_PRACTICE, CHECK_UNDERSTANDING, TOPIC_SUMMARY, LESSON_COMPLETE,
      BREAK_SUGGESTION, ANSWERING_QUESTION, HANDLING_CONFUSION,
      SESSION_COMPLETE, SESSION_PAUSED }

None == "none"

Triggers ==
    { "start", "auto", "complete", "user_accept", "user_decline", "resume",
      "user_question", "user_confused", "return", "user_end", "timeout" }

----------------------------------------------------------------------------
(* models/session.py: SessionContext *)

\* the outline: loaded or not, and the number of subtopics of each section
NoOutline == [loaded |-> FALSE, sections |-> <<>>]

SectionLists ==
    UNION { [1..n -> 0..MaxSubtopics] : n \in 0..MaxSections }

Outlines == {NoOutline} \cup { [loaded |-> TRUE, sections |-> s] : s \in SectionLists }

\* the outlines whose sections all have the same number of subtopics
UniformOutlines ==
    {NoOutline} \cup
    { [loaded |-> TRUE, sections |-> [i \in 1..n |-> k]] :
        n \in 0..MaxSections, k \in 0..MaxSubtopics }

HasSections(ctx) == ctx.outline.loaded

\* get_current_topic() returning None
NoTopic == <<>>

get_current_topic(ctx) ==
    IF ~HasSections(ctx) THEN NoTopic
    ELSE LET sections == ctx.outline.sections IN
         IF ctx.current_section_index >= Len(sections) THEN NoTopic
         ELSE LET subtopics == sections[ctx.current_section_index + 1] IN
              IF ctx.current_subtopic_index >= subtopics THEN NoTopic
              ELSE <<ctx.current_section_index, ctx.current_subtopic_index>>

advance_to_next_topic_mut(ctx) ==
    IF ~HasSections(ctx) THEN [ret |-> FALSE, ctx |-> ctx]
    ELSE LET sections == ctx.outline.sections IN
         IF ctx.current_section_index >= Len(sections)
         THEN [ret |-> FALSE, ctx |-> ctx]
         ELSE LET subtopics == sections[ctx.current_section_index + 1] IN
              IF ctx.current_subtopic_index < subtopics
              THEN [ret |-> TRUE,
                    ctx |-> [ctx EXCEPT !.current_subtopic_index = @ + 1]]
              ELSE IF ctx.current_section_index < Len(sections) - 1
              THEN [ret |-> TRUE,
                    ctx |-> [ctx EXCEPT !.current_section_index = @ + 1,
                                        !.current_subtopic_index = 0]]
              ELSE [ret |-> FALSE, ctx |-> ctx]

\* returns the result and the context after the call
advance_to_next_topic(ctx) ==
    IF ~HasSections(ctx) THEN [ret |-> FALSE, ctx |-> ctx]
    ELSE LET sections == ctx.outline.sections IN
         IF ctx.current_section_index >= Len(sections)
         THEN [ret |-> FALSE, ctx |-> ctx]
         ELSE LET subtopics == sections[ctx.current_section_index + 1] IN
              IF ctx.current_subtopic_index < subtopics - 1
              THEN [ret |-> TRUE,
                    ctx |-> [ctx EXCEPT !.current_subtopic_index = @ + 1]]
              ELSE IF ctx.current_section_index < Len(sections) - 1
              THEN [ret |-> TRUE,
                    ctx |-> [ctx EXCEPT !.current_section_index = @ + 1,
                                        !.current_subtopic_index = 0]]
              ELSE [ret |-> FALSE, ctx |-> ctx]

is_lesson_complete_mut(ctx) ==
    IF ~HasSections(ctx) THEN TRUE
    ELSE LET sections == ctx.outline.sections IN
         IF ctx.current_section_index >= Len(sections) THEN TRUE
         ELSE IF ctx.current_section_index = Len(sections) - 1
         THEN ctx.current_subtopic_index >= sections[ctx.current_section_index + 1]
         ELSE FALSE

is_lesson_complete(ctx) ==
    IF ~HasSections(ctx) THEN TRUE
    ELSE LET sections == ctx.outline.sections IN
         IF ctx.current_section_index >= Len(sections) THEN TRUE
         ELSE IF ctx.current_section_index = Len(sections) - 1
         THEN ctx.current_subtopic_index >= sections[ctx.current_section_index + 1] - 1
         ELSE FALSE

should_suggest_break_mut(ctx) ==
    ctx.time_since_last_break_minutes > ctx.break_threshold_minutes

should_suggest_break(ctx) ==
    ctx.time_since_last_break_minutes >= ctx.break_threshold_minutes

\* a timestamp field that is None
NoTime == 0 - 1

update_time_tracking(ctx, t) ==
    IF ctx.current_phase_started_at # NoTime
    THEN [ctx EXCEPT !.time_since_last_break_minutes = t - ctx.current_phase_started_at]
    ELSE ctx

record_break_mut(ctx, t) ==
    [ctx EXCEPT !.breaks_taken = @ + 1,
                !.current_phase_started_at = t]

record_break(ctx, t) ==
    [ctx EXCEPT !.breaks_taken = @ + 1,
                !.time_since_last_break_minutes = 0,
                !.current_phase_started_at = t]

\* the dataclass defaults of SessionContext
DefaultContext ==
    [ current_state |-> IDLE,
      previous_state |-> None,
      outline |-> NoOutline,
      current_section_index |-> 0,
      current_subtopic_index |-> 0,
      student_level |-> "intermediate",
      assessment_questions |-> <<>>,
      assessment_responses |-> <<>>,
      assessment_score |-> <<0, 1>>,
      topic_progress |-> <<>>,
      concepts_covered |-> <<>>,
      current_phase_started_at |-> NoTime,
      time_since_last_break_minutes |-> 0,
      break_threshold_minutes |-> MaxTime,
      breaks_taken |-> 0,
      pending_student_question |-> FALSE,
      is_paused |-> FALSE,
      student_requested_end |-> FALSE ]

\* break_threshold_minutes: a break is always due, or due after MaxTime minutes
Thresholds == {0, MaxTime}

\* no TutorStateMachine call made yet
NoCall == [op |-> "none", arg |-> None, pre |-> DefaultContext, ret |-> None]

----------------------------------------------------------------------------
(* agent/machine.py: the transition table *)

Rule(f, t, c, g) == [from_state |-> f, to_state |-> t, condition |-> c, trigger |-> g]

VALID_TRANSITIONS == <<
    Rule(IDLE, COURSE_SETUP, None, "start"),
    Rule(COURSE_SETUP, INITIAL_ASSESSMENT, None, "auto"),
    Rule(INITIAL_ASSESSMENT, ASSESSMENT_REVIEW, None, "complete"),
    Rule(ASSESSMENT_REVIEW, LESSON_INTRODUCTION, None, "auto"),
    Rule(LESSON_INTRODUCTION, CONCEPT_EXPLANATION, None, "auto"),
    Rule(CONCEPT_EXPLANATION, EXAMPLE_DEMONSTRATION, None, "auto"),
    Rule(EXAMPLE_DEMONSTRATION, GUIDED_PRACTICE, None, "auto"),
    Rule(GUIDED_PRACTICE, CHECK_UNDERSTANDING, None, "complete"),
    Rule(CHECK_UNDERSTANDING, TOPIC_SUMMARY, None, "auto"),
    Rule(TOPIC_SUMMARY, LESSON_INTRODUCTION, "next_topic", "auto"),
    Rule(TOPIC_SUMMARY, BREAK_SUGGESTION, "break_due", "auto"),
    Rule(TOPIC_SUMMARY, LESSON_COMPLETE, "lesson_done", "auto"),
    Rule(BREAK_SUGGESTION, SESSION_PAUSED, None, "user_accept"),
    Rule(BREAK_SUGGESTION, LESSON_INTRODUCTION, None, "user_decline"),
    Rule(SESSION_PAUSED, LESSON_INTRODUCTION, None, "resume"),
    Rule(LESSON_COMPLETE, SESSION_COMPLETE, None, "auto"),
    Rule(CONCEPT_EXPLANATION, ANSWERING_QUESTION, None, "user_question"),
    Rule(EXAMPLE_DEMONSTRATION, ANSWERING_QUESTION, None, "user_question"),
    Rule(GUIDED_PRACTICE, ANSWERING_QUESTION, None, "user_question"),
    Rule(CHECK_UNDERSTANDING, HANDLING_CONFUSION, None, "user_confused"),
    Rule(ANSWERING_QUESTION, CONCEPT_EXPLANATION, None, "return"),
    Rule(ANSWERING_QUESTION, EXAMPLE_DEMONSTRATION, None, "return"),
    Rule(ANSWERING_QUESTION, GUIDED_PRACTICE, None, "return"),
    Rule(HANDLING_CONFUSION, CONCEPT_EXPLANATION, None, "return"),
    Rule(LESSON_INTRODUCTION, SESSION_COMPLETE, None, "user_end"),
    Rule(CONCEPT_EXPLANATION, SESSION_COMPLETE, None, "user_end"),
    Rule(EXAMPLE_DEMONSTRATION, SESSION_COMPLETE, None, "user_end"),
    Rule(GUIDED_PRACTICE, SESSION_COMPLETE, None, "user_end"),
    Rule(CHECK_UNDERSTANDING, SESSION_COMPLETE, None, "user_end"),
    Rule(TOPIC_SUMMARY, SESSION_COMPLETE, None, "user_end") >>

\* the lambdas of the three guarded rules out of topic_summary
condition_mut(c, ctx) ==
    CASE c = "next_topic" -> ~is_lesson_complete(ctx) /\ ~should_suggest_break(ctx)
      [] c = "break_due" -> should_suggest_break(ctx)
      [] c = "lesson_done" -> is_lesson_complete(ctx)

condition(c, ctx) ==
    CASE c = "next_topic" -> ~is_lesson_complete(ctx) /\ ~should_suggest_break(ctx)
      [] c = "break_due" -> should_suggest_break(ctx) /\ ~is_lesson_complete(ctx)
      [] c = "lesson_done" -> is_lesson_complete(ctx)

\* "transition.condition is None or transition.condition(self.context)"
Passes(rule, ctx) == rule.condition = None \/ condition(rule.condition, ctx)

\* _build_transition_map, then transition_map.get(current, [])
transition_map(s) == SelectSeq(VALID_TRANSITIONS, LAMBDA r : r.from_state = s)

can_transition_to_mut(ctx, target_state) ==
    LET transitions == transition_map(ctx.current_state)
        hits == SelectSeq(transitions, LAMBDA r : r.to_state = target_state)
    IN  hits # <<>>

\* the first rule to target_state decides
can_transition_to(ctx, target_state) ==
    LET transitions == transition_map(ctx.current_state)
        hits == SelectSeq(transitions, LAMBDA r : r.to_state = target_state)
    IN  IF hits = <<>> THEN FALSE
        ELSE IF Head(hits).condition = None THEN TRUE
        ELSE condition(Head(hits).condition, ctx)

get_valid_transitions(ctx) ==
    LET valid == SelectSeq(transition_map(ctx.current_state), LAMBDA r : Passes(r, ctx))
    IN  [i \in 1..Len(valid) |-> valid[i].to_state]

transition_to_mut(ctx, target_state) ==
    IF ~can_transition_to(ctx, target_state)
    THEN [ret |-> FALSE, ctx |-> ctx]
    ELSE [ret |-> TRUE,
          ctx |-> [ctx EXCEPT !.current_state = target_state]]

transition_to(ctx, target_state) ==
    IF ~can_transition_to(ctx, target_state)
    THEN [ret |-> FALSE, ctx |-> ctx]
    ELSE [ret |-> TRUE,
          ctx |-> [ctx EXCEPT !.previous_state = ctx.current_state,
                              !.current_state = target_state]]

get_next_auto_state_mut(ctx) ==
    LET autos == SelectSeq(transition_map(ctx.current_state), LAMBDA r : Passes(r, ctx))
    IN  IF autos = <<>> THEN None ELSE Head(autos).to_state

get_next_auto_state(ctx) ==
    LET autos == SelectSeq(transition_map(ctx.current_state),
                           LAMBDA r : r.trigger = "auto" /\ Passes(r, ctx))
    IN  IF autos = <<>> THEN None ELSE Head(autos).to_state

\* the loop of process_trigger over transitions[i..]
RECURSIVE TriggerLoop(_, _, _, _)
TriggerLoop(ctx, transitions, trigger, i) ==
    IF i > Len(transitions) THEN [ret |-> None, ctx |-> ctx]
    ELSE LET t == transitions[i] IN
         IF t.trigger = trigger /\ Passes(t, ctx)
         THEN LET r == transition_to(ctx, t.to_state) IN
              IF r.ret THEN [ret |-> t.to_state, ctx |-> r.ctx]
              ELSE TriggerLoop(ctx, transitions, trigger, i + 1)
         ELSE TriggerLoop(ctx, transitions, trigger, i + 1)

\* the same loop walking the rules from the last to the first
RECURSIVE TriggerLoopBack(_, _, _, _)
TriggerLoopBack(ctx, transitions, trigger, i) ==
    IF i < 1 THEN [ret |-> None, ctx |-> ctx]
    ELSE LET t == transitions[i] IN
         IF t.trigger = trigger /\ Passes(t, ctx)
         THEN LET r == transition_to(ctx, t.to_state) IN
              IF r.ret THEN [ret |-> t.to_state, ctx |-> r.ctx]
              ELSE TriggerLoopBack(ctx, transitions, trigger, i - 1)
         ELSE TriggerLoopBack(ctx, transitions, trigger, i - 1)

process_trigger_mut(ctx, trigger) ==
    LET ts == transition_map(ctx.current_state)
    IN  TriggerLoopBack(ctx, ts, trigger, Len(ts))

process_trigger(ctx, trigger) ==
    TriggerLoop(ctx, transition_map(ctx.current_state), trigger, 1)

is_terminal_state(ctx) == ctx.current_state \in {SESSION_COMPLETE, SESSION_PAUSED}

is_teaching_state(ctx) ==
    ctx.current_state \in
        { LESSON_INTRODUCTION, CONCEPT_EXPLANATION, EXAMPLE_DEMONSTRATION,
          GUIDED_PRACTICE, CHECK_UNDERSTANDING, TOPIC_SUMMARY }

is_assessment_state(ctx) == ctx.current_state \in {INITIAL_ASSESSMENT, ASSESSMENT_REVIEW}

----------------------------------------------------------------------------
(* agent/tutor.py: ProactiveTutor *)

\* TutorEvent(event_type, state=...)
Ev(type, state) == [type |-> type, state |-> state]

\* TutorEvent("input_received", data={"input_type": input_type})
InputReceived(input_type) ==
    [type |-> "input_received", state |-> None, input_type |-> input_type]

\* what _classify_input looks at in the learner's text
Text(t, e, b, r, a, q, c) ==
    [ text |-> t, kw_end |-> e, kw_break |-> b, kw_resume |-> r, affirmative |-> a,
      question |-> q, confusion |-> c ]

\* the learner's utterances
Inputs ==
    { Text("stop", TRUE, FALSE, FALSE, FALSE, FALSE, FALSE),
      Text("break", FALSE, TRUE, FALSE, FALSE, FALSE, FALSE),
      Text("ready", FALSE, FALSE, TRUE, TRUE, FALSE, FALSE),
      Text("yes", FALSE, FALSE, FALSE, TRUE, FALSE, FALSE),
      Text("A", FALSE, FALSE, FALSE, FALSE, FALSE, FALSE),
      Text("B", FALSE, FALSE, FALSE, FALSE, FALSE, FALSE),
      Text("why?", FALSE, FALSE, FALSE, FALSE, TRUE, FALSE),
      Text("huh", FALSE, FALSE, FALSE, FALSE, FALSE, TRUE) }

\* the literal text "resume" sent by the session service
ResumeText == Text("resume", FALSE, FALSE, TRUE, FALSE, FALSE, FALSE)

_classify_input_mut(ctx, inp) ==
    IF inp.kw_end THEN "end_session"
    ELSE IF inp.kw_break THEN "take_break"
    ELSE IF inp.affirmative THEN "ready"
    ELSE IF inp.kw_resume THEN (IF ctx.is_paused THEN "resume" ELSE "continue")
    ELSE IF ctx.current_state = INITIAL_ASSESSMENT THEN "assessment_answer"
    ELSE IF ctx.current_state = GUIDED_PRACTICE THEN "practice_answer"
    ELSE IF inp.question THEN "question"
    ELSE IF inp.confusion THEN "confusion"
    ELSE "conversation"

_classify_input(ctx, inp) ==
    IF inp.kw_end THEN "end_session"
    ELSE IF inp.kw_break THEN "take_break"
    ELSE IF inp.kw_resume THEN (IF ctx.is_paused THEN "resume" ELSE "continue")
    ELSE IF inp.affirmative THEN "ready"
    ELSE IF ctx.current_state = INITIAL_ASSESSMENT THEN "assessment_answer"
    ELSE IF ctx.current_state = GUIDED_PRACTICE THEN "practice_answer"
    ELSE IF inp.question THEN "question"
    ELSE IF inp.confusion THEN "confusion"
    ELSE "conversation"

_transition_to_mut(ctx, state) ==
    [ctx EXCEPT !.previous_state = ctx.current_state, !.current_state = state]

\* the context after _transition_to(state); a refused transition changes nothing
_transition_to(ctx, state) == transition_to(ctx, state).ctx

\* answers graded in one session
MaxResponses == MaxQuestions + 1

\* the i-th question the model's answer is parsed into
Question(i) ==
    [ correct_answer |-> IF i % 2 = 1 THEN "A" ELSE "B",
      difficulty |-> IF i % 3 = 1 THEN "easy" ELSE IF i % 3 = 2 THEN "medium" ELSE "hard" ]

\* the parsed lists: no question (also what a failed parse returns) up to MaxQuestions
QuestionLists == { [i \in 1..n |-> Question(i)] : n \in 0..MaxQuestions }

\* multiple-choice answers: the normalised answer starts with the canonical letter
_check_answer(answer, question) == answer = question.correct_answer

_calculate_student_level_mut(ctx) ==
    IF ctx.assessment_responses = <<>> THEN ctx
    ELSE LET rs == ctx.assessment_responses
             correct == Cardinality({ i \in DOMAIN rs : rs[i].is_correct })
             total == Len(rs)
         IN  [ctx EXCEPT
                !.assessment_score = <<100 * correct, total>>,
                !.student_level =
                    IF 10 * correct > 8 * total THEN "advanced"
                    ELSE IF 10 * correct >= 5 * total THEN "intermediate"
                    ELSE "beginner"]

_calculate_student_level(ctx) ==
    IF ctx.assessment_responses = <<>> THEN ctx
    ELSE LET rs == ctx.assessment_responses
             correct == Cardinality({ i \in DOMAIN rs : rs[i].is_correct })
             total == Len(rs)
         IN  [ctx EXCEPT
                !.assessment_score = <<100 * correct, total>>,
                !.student_level =
                    IF 10 * correct >= 8 * total THEN "advanced"
                    ELSE IF 10 * correct >= 5 * total THEN "intermediate"
                    ELSE "beginner"]

\* the turn in progress moves on with context ctx2 and events ev2:
\*   "recurse"  the behaviour ends in "yield from self._process_current_state()"
\*   "return"   the behaviour returns and the generators unwind
TurnStep(ctx2, ev2, idx2, mode) ==
    /\ context' = ctx2
    /\ events' = ev2
    /\ current_assessment_index' = idx2
    /\ UNCHANGED <<now, call, chain>>
    /\ IF mode = "recurse"
       THEN IF depth < RecursionLimit
            THEN /\ pc' = "process"
                 /\ depth' = depth + 1
                 /\ UNCHANGED <<after_drain, turn_result>>
            ELSE \* RecursionError unwinds the whole turn
                 /\ pc' = "idle"
                 /\ depth' = 0
                 /\ after_drain' = "none"
                 /\ turn_result' = "recursion_error"
       ELSE IF after_drain = "question_return"
            THEN /\ pc' = "question_return"
                 /\ after_drain' = "none"
                 /\ UNCHANGED <<depth, turn_result>>
            ELSE /\ pc' = "idle"
                 /\ depth' = 0
                 /\ after_drain' = "none"
                 /\ turn_result' = "ok"

\* no turn is started once the bounded ledgers are full
MayStartTurn ==
    /\ pc = "idle"
    /\ Len(context.topic_progress) < MaxProgress

StartSession ==
    /\ MayStartTurn
    /\ context.current_state = IDLE
    /\ turn_result' = "none"
    /\ after_drain' = "none"
    /\ depth' = 1
    /\ pc' = "process"
    /\ events' = <<Ev("session_start", IDLE)>>
    /\ context' = _transition_to([context EXCEPT !.current_phase_started_at = now],
                                 COURSE_SETUP)
    /\ UNCHANGED <<now, current_assessment_index, call, chain>>

TopicSummaryNext_mut(ctx0) ==
    LET tp == ctx0.topic_progress
        ctx1 == IF tp # <<>>
                THEN [ctx0 EXCEPT !.topic_progress[Len(tp)].completed = TRUE]
                ELSE ctx0
        ctx2 == update_time_tracking(ctx1, now)
    IN  IF should_suggest_break(ctx2) THEN _transition_to(ctx2, BREAK_SUGGESTION)
        ELSE IF is_lesson_complete(ctx2) THEN _transition_to(ctx2, LESSON_COMPLETE)
        ELSE _transition_to(advance_to_next_topic(ctx2).ctx, LESSON_INTRODUCTION)

\* _do_topic_summary after the model has answered
TopicSummaryNext(ctx0) ==
    LET tp == ctx0.topic_progress
        ctx1 == IF tp # <<>>
                THEN [ctx0 EXCEPT !.topic_progress[Len(tp)].completed = TRUE]
                ELSE ctx0
        ctx2 == update_time_tracking(ctx1, now)
    IN  IF is_lesson_complete(ctx2) THEN _transition_to(ctx2, LESSON_COMPLETE)
        ELSE IF should_suggest_break(ctx2) THEN _transition_to(ctx2, BREAK_SUGGESTION)
        ELSE _transition_to(advance_to_next_topic(ctx2).ctx, LESSON_INTRODUCTION)

\* _process_current_state: one state_change event and the state's behaviour
Process ==
    /\ pc = "process"
    /\ LET s == context.current_state
           ev == Append(events, Ev("state_change", s))
           idx == current_assessment_index
       IN
       CASE s = COURSE_SETUP ->
              TurnStep(_transition_to(context, INITIAL_ASSESSMENT),
                       Append(ev, Ev("agent_speak", COURSE_SETUP)), idx, "recurse")
         [] s = INITIAL_ASSESSMENT ->
              \/ \E qs \in QuestionLists :
                    TurnStep([context EXCEPT !.assessment_questions = qs],
                             IF qs # <<>>
                             THEN Append(ev, Ev("ask_question", INITIAL_ASSESSMENT))
                             ELSE ev,
                             0, "return")
              \/ \* _parse_assessment_questions raises
                 TurnStep(_transition_to(context, LESSON_INTRODUCTION), ev, idx, "recurse")
         [] s = ASSESSMENT_REVIEW ->
              TurnStep(_transition_to(advance_to_next_topic(context).ctx,
                                      LESSON_INTRODUCTION),
                       Append(ev, Ev("agent_speak", ASSESSMENT_REVIEW)), idx, "recurse")
         [] s = LESSON_INTRODUCTION ->
              LET current_topic == get_current_topic(context) IN
              IF current_topic = NoTopic
              THEN TurnStep(_transition_to(context, LESSON_COMPLETE), ev, idx, "recurse")
              ELSE LET ctx1 == [context EXCEPT !.topic_progress =
                                  Append(@, [ topic_index |-> Len(@),
                                              topic |-> current_topic,
                                              examples_shown |-> 0,
                                              practice_problems_attempted |-> 0,
                                              completed |-> FALSE ])]
                   IN  TurnStep(_transition_to(ctx1, CONCEPT_EXPLANATION),
                                Append(ev, Ev("agent_speak", LESSON_INTRODUCTION)),
                                idx, "recurse")
         [] s = CONCEPT_EXPLANATION ->
              LET current_topic == get_current_topic(context)
                  ctx1 == IF current_topic # NoTopic
                          THEN [context EXCEPT !.concepts_covered = Append(@, current_topic)]
                          ELSE context
              IN  TurnStep(_transition_to(ctx1, EXAMPLE_DEMONSTRATION),
                           ev \o <<Ev("agent_speak", CONCEPT_EXPLANATION),
                                   Ev("transition", None)>>,
                           idx, "recurse")
         [] s = EXAMPLE_DEMONSTRATION ->
              LET tp == context.topic_progress
                  ctx1 == IF tp # <<>>
                          THEN [context EXCEPT !.topic_progress[Len(tp)].examples_shown = @ + 1]
                          ELSE context
              IN  TurnStep(_transition_to(ctx1, GUIDED_PRACTICE),
                           ev \o <<Ev("agent_speak", EXAMPLE_DEMONSTRATION),
                                   Ev("transition", None)>>,
                           idx, "recurse")
         [] s = GUIDED_PRACTICE ->
              TurnStep(context, Append(ev, Ev("ask_question", GUIDED_PRACTICE)), idx, "return")
         [] s = CHECK_UNDERSTANDING ->
              TurnStep(context, Append(ev, Ev("ask_question", CHECK_UNDERSTANDING)),
                       idx, "return")
         [] s = TOPIC_SUMMARY ->
              TurnStep(TopicSummaryNext(context),
                       Append(ev, Ev("agent_speak", TOPIC_SUMMARY)), idx, "recurse")
         [] s = ANSWERING_QUESTION ->
              TurnStep([context EXCEPT !.pending_student_question = FALSE],
                       Append(ev, Ev("agent_speak", ANSWERING_QUESTION)), idx, "return")
         [] s = HANDLING_CONFUSION ->
              TurnStep([context EXCEPT !.pending_student_question = FALSE],
                       Append(ev, Ev("agent_speak", HANDLING_CONFUSION)), idx, "return")
         [] s = BREAK_SUGGESTION ->
              TurnStep(context, Append(ev, Ev("suggest_break", BREAK_SUGGESTION)),
                       idx, "return")
         [] s = LESSON_COMPLETE ->
              TurnStep(_transition_to(context, SESSION_COMPLETE),
                       Append(ev, Ev("lesson_complete", LESSON_COMPLETE)), idx, "recurse")
         [] s = SESSION_COMPLETE ->
              TurnStep(context, Append(ev, Ev("session_complete", SESSION_COMPLETE)),
                       idx, "return")
         [] OTHER ->
              \* idle and session_paused have no behaviour
              TurnStep(context, ev, idx, "return")

\* the first step of a process_input turn that goes on into the drain
Dispatch(ctx2, ev2, idx2, mode, cont) ==
    /\ context' = ctx2
    /\ events' = ev2
    /\ current_assessment_index' = idx2
    /\ turn_result' = IF mode = "recurse" THEN "none" ELSE "ok"
    /\ pc' = IF mode = "recurse" THEN "process" ELSE "idle"
    /\ depth' = IF mode = "recurse" THEN 1 ELSE 0
    /\ after_drain' = IF mode = "recurse" THEN cont ELSE "none"
    /\ UNCHANGED <<now, call, chain>>

ContinueLesson_mut(ctx, ev, idx) ==
    LET next_state == get_next_auto_state(ctx) IN
    Dispatch(_transition_to(ctx, next_state), ev, idx, "recurse", "none")

\* _continue_lesson
ContinueLesson(ctx, ev, idx) ==
    LET next_state == get_next_auto_state(ctx) IN
    IF next_state # None
    THEN Dispatch(_transition_to(ctx, next_state), ev, idx, "recurse", "none")
    ELSE Dispatch(ctx, Append(ev, Ev("agent_speak", None)), idx, "return", "none")

ProcessAssessmentAnswer_mut(ctx, ev, answer) ==
    LET idx == current_assessment_index
        qs == ctx.assessment_questions
    IN  IF idx >= Len(qs) THEN ContinueLesson(ctx, ev, idx)
        ELSE Len(ctx.assessment_responses) < MaxResponses /\
             LET question == qs[idx + 1]
                 ctx1 == [ctx EXCEPT !.assessment_responses =
                            Append(@, [ question_index |-> idx,
                                        student_answer |-> answer,
                                        correct_answer |-> question.correct_answer,
                                        is_correct |-> _check_answer(answer, question),
                                        difficulty |-> question.difficulty ])]
                 ev1 == Append(ev, Ev("assessment_feedback", None))
             IN  IF idx + 1 < Len(qs)
                 THEN Dispatch(ctx1, Append(ev1, Ev("ask_question", INITIAL_ASSESSMENT)),
                               idx + 1, "return", "none")
                 ELSE Dispatch(_transition_to(ctx1, ASSESSMENT_REVIEW),
                               ev1, idx + 1, "recurse", "none")

\* _process_assessment_answer
ProcessAssessmentAnswer(ctx, ev, answer) ==
    LET idx == current_assessment_index
        qs == ctx.assessment_questions
    IN  IF idx >= Len(qs) THEN ContinueLesson(ctx, ev, idx)
        ELSE Len(ctx.assessment_responses) < MaxResponses /\
             LET question == qs[idx + 1]
                 ctx1 == [ctx EXCEPT !.assessment_responses =
                            Append(@, [ question_index |-> idx,
                                        student_answer |-> answer,
                                        correct_answer |-> question.correct_answer,
                                        is_correct |-> _check_answer(answer, question),
                                        difficulty |-> question.difficulty ])]
                 ev1 == Append(ev, Ev("assessment_feedback", None))
             IN  IF idx + 1 < Len(qs)
                 THEN Dispatch(ctx1, Append(ev1, Ev("ask_question", INITIAL_ASSESSMENT)),
                               idx + 1, "return", "none")
                 ELSE Dispatch(_transition_to(_calculate_student_level(ctx1),
                                              ASSESSMENT_REVIEW),
                               ev1, idx + 1, "recurse", "none")

\* _process_practice_answer (practice_problems_correct, a counter nothing
\* reads, is left out)
ProcessPracticeAnswer(ctx, ev) ==
    LET tp == ctx.topic_progress
        ctx1 == IF tp # <<>>
                THEN [ctx EXCEPT
                        !.topic_progress[Len(tp)].practice_problems_attempted = @ + 1]
                ELSE ctx
    IN  Dispatch(_transition_to(ctx1, CHECK_UNDERSTANDING),
                 Append(ev, Ev("agent_speak", None)), current_assessment_index,
                 "recurse", "none")

\* process_input(user_input) up to the first nested _process_current_state
ProcessInputText(ctx, inp) ==
    LET input_type == _classify_input(ctx, inp)
        ev == <<InputReceived(input_type)>>
        idx == current_assessment_index
    IN  CASE input_type = "question" ->
               LET ctx1 == [ctx EXCEPT !.pending_student_question = TRUE] IN
               IF is_teaching_state(ctx1)
               THEN Dispatch(_transition_to(ctx1, ANSWERING_QUESTION), ev, idx,
                             "recurse", "question_return")
               ELSE \* _answer_question
                    Dispatch(ctx1, Append(ev, Ev("agent_speak", None)), idx, "return", "none")
          [] input_type = "confusion" ->
               Dispatch(_transition_to([ctx EXCEPT !.pending_student_question = TRUE],
                                       HANDLING_CONFUSION),
                        ev, idx, "recurse", "none")
          [] input_type = "assessment_answer" ->
               ProcessAssessmentAnswer(ctx, ev, inp.text)
          [] input_type = "practice_answer" ->
               ProcessPracticeAnswer(ctx, ev)
          [] input_type \in {"continue", "ready"} ->
               ContinueLesson(ctx, ev, idx)
          [] input_type = "end_session" ->
               Dispatch(_transition_to([ctx EXCEPT !.student_requested_end = TRUE],
                                       SESSION_COMPLETE),
                        ev, idx, "recurse", "none")
          [] input_type = "take_break" ->
               ctx.breaks_taken < MaxBreaks /\
               Dispatch(_transition_to(record_break(ctx, now), SESSION_PAUSED),
                        Append(ev, Ev("session_paused", SESSION_PAUSED)), idx,
                        "return", "none")
          [] input_type = "resume" ->
               Dispatch(_transition_to(ctx, LESSON_INTRODUCTION), ev, idx,
                        "recurse", "none")
          [] OTHER ->
               \* _process_conversation
               Dispatch(ctx, Append(ev, Ev("agent_speak", None)), idx, "return", "none")

ProcessInput(inp) ==
    /\ MayStartTurn
    /\ ProcessInputText(context, inp)

\* process_input after the nested drain: "Return to previous state"
QuestionReturn ==
    /\ pc = "question_return"
    /\ context' = IF context.previous_state # None /\ is_teaching_state(context)
                  THEN _transition_to(context, context.previous_state)
                  ELSE context
    /\ pc' = "idle"
    /\ depth' = 0
    /\ turn_result' = "ok"
    /\ UNCHANGED <<now, current_assessment_index, after_drain, events, call, chain>>

\* TutorSessionService.pause_session
PauseSession ==
    /\ pc = "idle"
    /\ context.breaks_taken < MaxBreaks
    /\ context' = record_break([context EXCEPT !.is_paused = TRUE], now)
    /\ UNCHANGED <<now, tutorVars, call, chain>>

\* TutorSessionService.resume_session
ResumeSession ==
    /\ MayStartTurn
    /\ ProcessInputText([context EXCEPT !.is_paused = FALSE], ResumeText)

\* time passes between turns
Tick ==
    /\ pc = "idle"
    /\ now < MaxTime
    /\ now' = now + 1
    /\ UNCHANGED <<context, tutorVars, call, chain>>

Init ==
    /\ \E o \in Outlines, th \in Thresholds :
          context = [DefaultContext EXCEPT !.outline = o, !.break_threshold_minutes = th]
    /\ now = 0
    /\ current_assessment_index = 0
    /\ pc = "idle"
    /\ after_drain = "none"
    /\ depth = 0
    /\ turn_result = "none"
    /\ events = <<>>
    /\ call = NoCall
    /\ chain = <<>>

Next ==
    \/ StartSession
    \/ \E inp \in Inputs : ProcessInput(inp)
    \/ Process
    \/ QuestionReturn
    \/ PauseSession
    \/ ResumeSession
    \/ Tick

Spec == Init /\ [][Next]_vars

----------------------------------------------------------------------------
(* MachineSpec: TutorStateMachine called on an arbitrary SessionContext *)

\* every context a caller can hand to TutorStateMachine(context)
MachineContexts ==
    { [DefaultContext EXCEPT
          !.current_state = s,
          !.outline = o,
          !.current_section_index = i,
          !.current_subtopic_index = j,
          !.time_since_last_break_minutes = m,
          !.break_threshold_minutes = th] :
      s \in TutorState, o \in UniformOutlines,
      i \in 0..MaxSections, j \in 0..MaxSubtopics,
      m \in {0, MaxTime}, th \in Thresholds }

TutorIdle ==
    /\ now = 0
    /\ current_assessment_index = 0
    /\ pc = "idle"
    /\ after_drain = "none"
    /\ depth = 0
    /\ turn_result = "none"
    /\ events = <<>>

MachineInit ==
    /\ context \in MachineContexts
    /\ TutorIdle
    /\ call = NoCall
    /\ chain = <<>>

\* one call is made on each context
Called(op, arg, ret) ==
    /\ call.op = "none"
    /\ call' = [op |-> op, arg |-> arg, pre |-> context, ret |-> ret]
    /\ UNCHANGED <<now, tutorVars, chain>>

CanTransitionTo(target) ==
    /\ context' = context
    /\ Called("can_transition_to", target, can_transition_to(context, target))

TransitionTo(target) ==
    LET r == transition_to(context, target) IN
    /\ context' = r.ctx
    /\ Called("transition_to", target, r.ret)

ProcessTrigger(trigger) ==
    LET r == process_trigger(context, trigger) IN
    /\ context' = r.ctx
    /\ Called("process_trigger", trigger, r.ret)

\* process_trigger("user_question") followed by process_trigger("return")
QuestionThenReturn ==
    LET q == process_trigger(context, "user_question")
        r == process_trigger(q.ctx, "return")
    IN  /\ context' = r.ctx
        /\ Called("question_then_return", q.ret, r.ret)

MachineNext ==
    \/ \E target \in TutorState : CanTransitionTo(target)
    \/ \E target \in TutorState : TransitionTo(target)
    \/ \E trigger \in Triggers : ProcessTrigger(trigger)
    \/ QuestionThenReturn

MachineSpec == MachineInit /\ [][MachineNext]_vars

----------------------------------------------------------------------------
(* AutoSpec: following get_next_auto_state() from an arbitrary context *)

AutoInit ==
    /\ context \in MachineContexts
    /\ TutorIdle
    /\ call = NoCall
    /\ chain = <<context.current_state>>

\* the automatic rule get_next_auto_state() names is taken; the cursor moves on
\* when topic_summary goes to lesson_introduction (_do_topic_summary)
AutoStep ==
    LET next_state == get_next_auto_state(context)
        ctx1 == IF context.current_state = TOPIC_SUMMARY /\ next_state = LESSON_INTRODUCTION
                THEN advance_to_next_topic(context).ctx
                ELSE context
    IN  /\ next_state # None
        /\ context' = [ctx1 EXCEPT !.previous_state = context.current_state,
                                   !.current_state = next_state]
        /\ chain' = Append(chain, next_state)
        /\ UNCHANGED <<now, tutorVars, call>>

AutoNext == AutoStep

AutoSpec == AutoInit /\ [][AutoNext]_vars

----------------------------------------------------------------------------
(* Properties of the state machine, checked under MachineSpec *)

RuleIndices == DOMAIN VALID_TRANSITIONS

\* the rules from state s to state t whose guard is absent or true on ctx
LegalRules(ctx, s, t) ==
    { i \in RuleIndices :
        /\ VALID_TRANSITIONS[i].from_state = s
        /\ VALID_TRANSITIONS[i].to_state = t
        /\ Passes(VALID_TRANSITIONS[i], ctx) }

\* the rules from state s with trigger g whose guard is absent or true on ctx
EnabledRules(ctx, s, g) ==
    { i \in RuleIndices :
        /\ VALID_TRANSITIONS[i].from_state = s
        /\ VALID_TRANSITIONS[i].trigger = g
        /\ Passes(VALID_TRANSITIONS[i], ctx) }

Least(S) == CHOOSE i \in S : \A j \in S : i <= j

\* C1: transition_to(target) on a legal transition sets previous_state to the
\* old current_state, sets current_state to target and returns true; on an
\* illegal one it returns false and leaves the context exactly as it was.
C1_TransitionTo ==
    call.op = "transition_to" =>
        IF LegalRules(call.pre, call.pre.current_state, call.arg) # {}
        THEN /\ call.ret = TRUE
             /\ context = [call.pre EXCEPT !.previous_state = call.pre.current_state,
                                           !.current_state = call.arg]
        ELSE /\ call.ret = FALSE
             /\ context = call.pre

\* an illegal transition_to out of topic_summary (the rule exists, its guard is false)
C1_Witness ==
    /\ call.op = "transition_to"
    /\ call.pre.current_state = TOPIC_SUMMARY
    /\ call.arg = BREAK_SUGGESTION
    /\ call.ret = FALSE
    /\ context = call.pre

\* C2: can_transition_to(T) in state S is true exactly when the table has a
\* rule S -> T whose guard is absent or true on the context.
C2_CanTransitionTo ==
    call.op = "can_transition_to" =>
        (call.ret <=> LegalRules(call.pre, call.pre.current_state, call.arg) # {})

\* can_transition_to answers false for a guarded rule whose guard fails
C2_Witness ==
    /\ call.op = "can_transition_to"
    /\ call.pre.current_state = TOPIC_SUMMARY
    /\ call.arg = LESSON_INTRODUCTION
    /\ is_lesson_complete(call.pre)
    /\ call.ret = FALSE

\* C4: for every trigger, at most one rule out of the current state with
\* that trigger has a guard that is absent or true.
C4_Deterministic ==
    \A g \in Triggers : Cardinality(EnabledRules(context, context.current_state, g)) <= 1

\* C5: exactly one of the three guarded auto rules out of topic_summary has
\* a true guard, whatever is_lesson_complete() and should_suggest_break() say.
C5_SingleBranch ==
    Cardinality({ i \in RuleIndices :
                    /\ VALID_TRANSITIONS[i].from_state = TOPIC_SUMMARY
                    /\ VALID_TRANSITIONS[i].trigger = "auto"
                    /\ VALID_TRANSITIONS[i].condition # None
                    /\ condition(VALID_TRANSITIONS[i].condition, context) }) = 1

\* the lesson is complete and a break is due while the machine is asked
\* about the way out of topic_summary
C5_Witness ==
    /\ call.op = "can_transition_to"
    /\ call.pre.current_state = TOPIC_SUMMARY
    /\ call.arg = LESSON_COMPLETE
    /\ call.ret = TRUE
    /\ is_lesson_complete(context)
    /\ should_suggest_break(context)

\* C6: process_trigger(t) moves to, and returns, the to_state of the first
\* rule in declaration order with the current from_state, trigger t and a
\* passing guard; without such a rule it returns None and changes nothing.
C6_ProcessTrigger ==
    call.op = "process_trigger" =>
        LET rules == EnabledRules(call.pre, call.pre.current_state, call.arg) IN
        IF rules # {}
        THEN LET first == VALID_TRANSITIONS[Least(rules)] IN
             /\ call.ret = first.to_state
             /\ context = [call.pre EXCEPT !.previous_state = call.pre.current_state,
                                           !.current_state = first.to_state]
        ELSE /\ call.ret = None
             /\ context = call.pre

\* three rules match "return" in answering_question; the first one is taken
C6_Witness ==
    /\ call.op = "process_trigger"
    /\ call.pre.current_state = ANSWERING_QUESTION
    /\ call.arg = "return"
    /\ call.ret = CONCEPT_EXPLANATION
    /\ context.current_state = CONCEPT_EXPLANATION

\* C7: from concept_explanation, example_demonstration and guided_practice,
\* process_trigger("user_question") followed by process_trigger("return")
\* ends in the state that was active before the interruption.
C7_RoundTrip ==
    ( /\ call.op = "question_then_return"
      /\ call.pre.current_state \in
            {CONCEPT_EXPLANATION, EXAMPLE_DEMONSTRATION, GUIDED_PRACTICE} )
    => context.current_state = call.pre.current_state

\* C9: a chain of automatic transitions never comes back to a state it has
\* left, so after fewer steps than there are states it stands in a state
\* where get_next_auto_state() is None.
C9_NoAutoCycle ==
    /\ \A i, j \in DOMAIN chain : i # j => chain[i] # chain[j]
    /\ Len(chain) <= Cardinality(TutorState)

\* the longest chain: check_understanding up to guided_practice of the next topic
C9_Witness ==
    /\ chain = << CHECK_UNDERSTANDING, TOPIC_SUMMARY, LESSON_INTRODUCTION,
                  CONCEPT_EXPLANATION, EXAMPLE_DEMONSTRATION, GUIDED_PRACTICE >>
    /\ get_next_auto_state(context) = None

----------------------------------------------------------------------------
(* Properties of the orchestrator, checked under Spec *)

\* C3: every change of current_state follows a rule of the table from the
\* old state to the new one whose guard holds on the context at that moment
\* (the context the step leaves behind, cursor already advanced).
C3_TableIsTheOnlyWay ==
    [][ context'.current_state # context.current_state =>
          /\ LegalRules(context', context.current_state, context'.current_state) # {}
          /\ context'.previous_state = context.current_state ]_vars

\* the drain has gone from topic_summary to lesson_introduction, whose rule is guarded
C3_Witness ==
    /\ pc = "process"
    /\ context.current_state = LESSON_INTRODUCTION
    /\ context.previous_state = TOPIC_SUMMARY
    /\ depth > 1

\* C8: every turn runs to its end: the drain never nests until the call
\* stack is exhausted.
C8_TurnTerminates == turn_result # "recursion_error"

\* a turn has entered lesson_introduction while the cursor had no topic
EnteredIntroductionWithoutTopic ==
    /\ get_current_topic(context) = NoTopic
    /\ \E i \in DOMAIN events : events[i] = Ev("state_change", LESSON_INTRODUCTION)

\* C10: a turn that enters lesson_introduction without a current topic ends
\* in session_complete, having passed lesson_complete.
C10_MissingOutlineCompletes ==
    (pc = "idle" /\ turn_result # "none" /\ EnteredIntroductionWithoutTopic)
    => /\ context.current_state = SESSION_COMPLETE
       /\ turn_result = "ok"
       /\ \E i \in DOMAIN events : events[i] = Ev("lesson_complete", LESSON_COMPLETE)

----------------------------------------------------------------------------
(* Properties of the turns, checked under Spec *)

\* the turn that was started last has run to its end
TurnEnded == pc = "idle" /\ turn_result # "none"

\* the turn in progress, or the last one, has emitted event e
HasEvent(e) == \E i \in DOMAIN events : events[i] = e

\* the turn in progress, or the last one, is a process_input turn classified t
TurnOf(t) == events # <<>> /\ events[1] = InputReceived(t)

\* C11: a turn that runs initial_assessment without obtaining any question
\* skips the assessment: it goes on to lesson_introduction and does not end
\* in initial_assessment.
C11_AssessmentSkipped ==
    ( /\ TurnEnded
      /\ HasEvent(Ev("state_change", INITIAL_ASSESSMENT))
      /\ context.assessment_questions = <<>> )
    => /\ context.current_state # INITIAL_ASSESSMENT
       /\ HasEvent(Ev("state_change", LESSON_INTRODUCTION))

\* the subtopics of the outline, as cursor positions <<section, subtopic>>
TopicSet(ctx) ==
    IF ~HasSections(ctx) THEN {}
    ELSE UNION { { <<i - 1, j>> : j \in 0..(ctx.outline.sections[i] - 1) } :
                   i \in DOMAIN ctx.outline.sections }

\* outline order
Before(t, u) == t[1] < u[1] \/ (t[1] = u[1] /\ t[2] < u[2])

\* the topics lesson_introduction has introduced so far, in the order it did
Introduced == [k \in DOMAIN context.topic_progress |-> context.topic_progress[k].topic]

\* C12: with an outline of at least one subtopic, the first topic introduced
\* is the first subtopic, topics are introduced once each in outline order
\* without a gap, and lesson_complete comes only when every subtopic has
\* been introduced.
C12_CurriculumCoverage ==
    TopicSet(context) # {} =>
        /\ \A k \in DOMAIN Introduced :
              { t \in TopicSet(context) : Before(t, Introduced[k]) }
                  = { Introduced[m] : m \in 1..(k - 1) }
        /\ HasEvent(Ev("lesson_complete", LESSON_COMPLETE)) =>
              { Introduced[k] : k \in DOMAIN Introduced } = TopicSet(context)

\* the cursor of the curriculum
Cursor(ctx) == <<ctx.current_section_index, ctx.current_subtopic_index>>

\* the topic_summary behaviour is about to run
SummaryRuns == pc = "process" /\ context.current_state = TOPIC_SUMMARY

\* C13: when topic_summary runs with the lesson not complete and no break
\* due, the cursor advances by exactly one topic and the turn goes on into
\* lesson_introduction.
C13_SummaryAdvances ==
    [][ ( /\ SummaryRuns
          /\ ~is_lesson_complete(context)
          /\ ~should_suggest_break(update_time_tracking(context, now)) )
        => /\ Cursor(context') = Cursor(advance_to_next_topic(context).ctx)
           /\ Cursor(context') # Cursor(context)
           /\ context'.current_state = LESSON_INTRODUCTION ]_vars

\* event a comes before event b in the turn's events
EventBefore(a, b) ==
    \E i, j \in DOMAIN events : i < j /\ events[i] = a /\ events[j] = b

\* C14: a turn in which topic_summary runs with the lesson complete ends in
\* session_complete, with a lesson_complete event before a session_complete
\* event, whether or not a break is due.
C14_CompleteCascade ==
    ( /\ TurnEnded
      /\ HasEvent(Ev("agent_speak", TOPIC_SUMMARY))
      /\ is_lesson_complete(context) )
    => /\ turn_result = "ok"
       /\ context.current_state = SESSION_COMPLETE
       /\ context.previous_state = LESSON_COMPLETE
       /\ EventBefore(Ev("lesson_complete", LESSON_COMPLETE),
                      Ev("session_complete", SESSION_COMPLETE))

\* the cascade has run although a break was due when topic_summary ended
C14_Witness ==
    /\ TurnEnded
    /\ HasEvent(Ev("agent_speak", TOPIC_SUMMARY))
    /\ is_lesson_complete(context)
    /\ should_suggest_break(context)
    /\ context.current_state = SESSION_COMPLETE
    /\ events[Len(events)] = Ev("session_complete", SESSION_COMPLETE)

\* C15: with break_threshold_minutes = 0 and the lesson not complete, the
\* topic_summary behaviour always goes to break_suggestion, on the same
\* topic, and never to lesson_introduction.
C15_ZeroThresholdBreaks ==
    [][ ( /\ SummaryRuns
          /\ context.break_threshold_minutes = 0
          /\ ~is_lesson_complete(context) )
        => /\ context'.current_state = BREAK_SUGGESTION
           /\ context'.previous_state = TOPIC_SUMMARY
           /\ Cursor(context') = Cursor(context) ]_vars

\* topic_summary has just handed over to break_suggestion under a zero threshold
C15_Witness ==
    /\ pc = "process"
    /\ context.current_state = BREAK_SUGGESTION
    /\ context.previous_state = TOPIC_SUMMARY
    /\ context.break_threshold_minutes = 0
    /\ ~is_lesson_complete(context)
    /\ events[Len(events)] = Ev("agent_speak", TOPIC_SUMMARY)

\* C16: a turn whose input is classified end_session sets the
\* learner-requested-end flag and ends in session_complete after running
\* the session_complete behaviour.
C16_EndSession ==
    (TurnEnded /\ TurnOf("end_session"))
    => /\ context.student_requested_end
       /\ context.current_state = SESSION_COMPLETE
       /\ events[Len(events)] = Ev("session_complete", SESSION_COMPLETE)

\* C17: a turn whose input is classified take_break adds one to
\* breaks_taken, resets the since-last-break clock, ends in session_paused
\* and emits a session_paused event.
C17_TakeBreak ==
    [][ ( /\ pc = "idle"
          /\ events' # events
          /\ events' # <<>>
          /\ events'[1] = InputReceived("take_break") )
        => /\ context'.breaks_taken = context.breaks_taken + 1
           /\ context'.time_since_last_break_minutes = 0
           /\ context'.current_state = SESSION_PAUSED
           /\ pc' = "idle"
           /\ events'[Len(events')] = Ev("session_paused", SESSION_PAUSED) ]_vars

\* C18: a turn whose input is classified resume (paused flag set, resume
\* keyword) transitions to lesson_introduction and runs its behaviour.
C18_PausedResumes ==
    (TurnEnded /\ TurnOf("resume"))
    => /\ Len(events) >= 2
       /\ events[2] = Ev("state_change", LESSON_INTRODUCTION)

\* C19: a turn whose input is classified question while the state is a
\* teaching state (the turn then drains) enters answering_question, runs its
\* behaviour and ends in a teaching state again.
C19_QuestionRoundTrip ==
    (TurnEnded /\ TurnOf("question") /\ Len(events) >= 2)
    => ( events[2].type = "state_change"
         => /\ events[2] = Ev("state_change", ANSWERING_QUESTION)
            /\ HasEvent(Ev("agent_speak", ANSWERING_QUESTION))
            /\ is_teaching_state(context) )

\* C20: a question outside a teaching state, free conversation, and
\* continue/ready when get_next_auto_state() is None leave current_state,
\* previous_state and the cursor as they were, end the turn at once and emit
\* no state_change event.
C20_NonTransitioning ==
    [][ ( /\ pc = "idle"
          /\ now' = now
          /\ context'.breaks_taken = context.breaks_taken
          /\ events' # <<>>
          /\ \/ events'[1] = InputReceived("question") /\ ~is_teaching_state(context)
             \/ events'[1] = InputReceived("conversation")
             \/ /\ events'[1] \in {InputReceived("continue"), InputReceived("ready")}
                /\ get_next_auto_state(context) = None )
        => /\ context'.current_state = context.current_state
           /\ context'.previous_state = context.previous_state
           /\ Cursor(context') = Cursor(context)
           /\ pc' = "idle"
           /\ \A i \in DOMAIN events' : events'[i].type # "state_change" ]_vars

\* "ready" while waiting in guided_practice: nothing to advance to
C20_Witness ==
    /\ TurnEnded
    /\ events = <<InputReceived("ready"), Ev("agent_speak", None)>>
    /\ context.current_state = GUIDED_PRACTICE
    /\ context.previous_state = EXAMPLE_DEMONSTRATION
    /\ get_next_auto_state(context) = None

----------------------------------------------------------------------------
(* ClassifierSpec: _classify_input on an arbitrary text, state and paused flag *)

\* words per utterance
MaxWords == 2

\* one word for each list the classifier searches, a question mark and a filler
Vocabulary == {"stop", "break", "continue", "ready", "yes", "why", "huh", "?", "x"}

\* the learner's text, word by word
Utterances == UNION { [1..n -> Vocabulary] : n \in 0..MaxWords }

Contains(words, w) == \E i \in DOMAIN words : words[i] = w

\* the tests _classify_input makes on the lowered, stripped text
Features(words) ==
    Text(words,
         Contains(words, "stop"),
         Contains(words, "break"),
         Contains(words, "continue") \/ Contains(words, "ready"),
         words \in {<<"yes">>, <<"ready">>},
         Contains(words, "?") \/ (words # <<>> /\ words[1] = "why"),
         Contains(words, "huh"))

ClassifierContexts ==
    { [DefaultContext EXCEPT !.current_state = s, !.is_paused = p] :
        s \in TutorState, p \in BOOLEAN }

ClassifierInit ==
    /\ context \in ClassifierContexts
    /\ TutorIdle
    /\ call = NoCall
    /\ chain = <<>>

Classify(words) ==
    /\ context' = context
    /\ Called("_classify_input", words, _classify_input(context, Features(words)))

ClassifierNext == \E words \in Utterances : Classify(words)

ClassifierSpec == ClassifierInit /\ [][ClassifierNext]_vars

\* the nine precedence rules: whether rule n matches, and the intent it gives
RuleMatches(n, ctx, inp) ==
    CASE n = 1 -> inp.kw_end
      [] n = 2 -> inp.kw_break
      [] n = 3 -> inp.kw_resume
      [] n = 4 -> inp.affirmative
      [] n = 5 -> ctx.current_state = INITIAL_ASSESSMENT
      [] n = 6 -> ctx.current_state = GUIDED_PRACTICE
      [] n = 7 -> inp.question
      [] n = 8 -> inp.confusion
      [] n = 9 -> TRUE

RuleIntent(n, ctx) ==
    CASE n = 1 -> "end_session"
      [] n = 2 -> "take_break"
      [] n = 3 -> IF ctx.is_paused THEN "resume" ELSE "continue"
      [] n = 4 -> "ready"
      [] n = 5 -> "assessment_answer"
      [] n = 6 -> "practice_answer"
      [] n = 7 -> "question"
      [] n = 8 -> "confusion"
      [] n = 9 -> "conversation"

\* C21: the classifier returns the intent of the lowest-numbered matching
\* precedence rule; "stop" while paused gives end_session and "ready" while
\* paused gives resume.
C21_ClassifierPrecedence ==
    call.op = "_classify_input" =>
        LET inp == Features(call.arg)
            first == Least({ n \in 1..9 : RuleMatches(n, call.pre, inp) })
        IN  /\ call.ret = RuleIntent(first, call.pre)
            /\ (call.pre.is_paused /\ Contains(call.arg, "stop")) => call.ret = "end_session"
            /\ (call.pre.is_paused /\ call.arg = <<"ready">>) => call.ret = "resume"

\* "ready" while paused and waiting in guided_practice: rules 3, 4 and 6 match
C21_Witness ==
    /\ call.op = "_classify_input"
    /\ call.arg = <<"ready">>
    /\ call.pre.is_paused
    /\ call.pre.current_state = GUIDED_PRACTICE
    /\ call.ret = "resume"

----------------------------------------------------------------------------
(* AssessSpec: the initial assessment, from the first question presented *)

\* the question lists a session is assessed with
AssessmentLists == { [i \in 1..n |-> Question(i)] : n \in 1..MaxResponses }

\* the two answers a learner picks from
Answers ==
    { Text("A", FALSE, FALSE, FALSE, FALSE, FALSE, FALSE),
      Text("B", FALSE, FALSE, FALSE, FALSE, FALSE, FALSE) }

\* the session after a start_session turn in which the questions were parsed
AssessInit ==
    /\ \E o \in Outlines, th \in Thresholds, qs \in AssessmentLists :
          context = [DefaultContext EXCEPT
                        !.outline = o,
                        !.break_threshold_minutes = th,
                        !.current_phase_started_at = 0,
                        !.current_state = INITIAL_ASSESSMENT,
                        !.previous_state = COURSE_SETUP,
                        !.assessment_questions = qs]
    /\ now = 0
    /\ current_assessment_index = 0
    /\ pc = "idle"
    /\ after_drain = "none"
    /\ depth = 0
    /\ turn_result = "ok"
    /\ events = << Ev("session_start", IDLE),
                   Ev("state_change", COURSE_SETUP), Ev("agent_speak", COURSE_SETUP),
                   Ev("state_change", INITIAL_ASSESSMENT),
                   Ev("ask_question", INITIAL_ASSESSMENT) >>
    /\ call = NoCall
    /\ chain = <<>>

\* process_input with a text classified assessment_answer
AnswerAssessment(inp) ==
    /\ context.current_state = INITIAL_ASSESSMENT
    /\ ProcessInput(inp)

AssessNext ==
    \/ \E inp \in Answers : AnswerAssessment(inp)
    \/ Process

AssessSpec == AssessInit /\ [][AssessNext]_vars

\* the i-th response is the record of the i-th question
RecordsInOrder(n) ==
    /\ Len(context.assessment_responses) = n
    /\ \A i \in 1..n :
          LET r == context.assessment_responses[i]
              q == context.assessment_questions[i]
          IN  /\ r.question_index = i - 1
              /\ r.correct_answer = q.correct_answer
              /\ r.difficulty = q.difficulty
              /\ r.is_correct = (r.student_answer = q.correct_answer)

\* C22: while the assessment runs, k answers have stored the records of the
\* first k questions in order; once the last is answered, all n records are
\* stored, score and level are computed from them and the session has left
\* initial_assessment through assessment_review.
C22_AssessmentRecords ==
    LET n == Len(context.assessment_questions) IN
    IF context.current_state = INITIAL_ASSESSMENT
    THEN /\ current_assessment_index < n
         /\ RecordsInOrder(current_assessment_index)
    ELSE /\ current_assessment_index = n
         /\ RecordsInOrder(n)
         /\ context = _calculate_student_level(context)
         /\ events[1] = InputReceived("assessment_answer")
         /\ \/ context.current_state = ASSESSMENT_REVIEW
            \/ HasEvent(Ev("state_change", ASSESSMENT_REVIEW))

\* two questions answered, the second one wrongly: one of two correct
C22_Witness ==
    /\ Len(context.assessment_questions) = 2
    /\ Len(context.assessment_responses) = 2
    /\ context.assessment_responses[1].is_correct
    /\ ~context.assessment_responses[2].is_correct
    /\ context.assessment_score = <<100, 2>>
    /\ context.student_level = "intermediate"
    /\ context.current_state # INITIAL_ASSESSMENT

----------------------------------------------------------------------------
(* LevelSpec: _calculate_student_level on an arbitrary list of responses *)

\* responses graded before the level is computed
MaxTotal == 5

StudentLevel == {"beginner", "intermediate", "advanced"}

\* the response lists: one record per graded answer, right or wrong
ResponseLists ==
    UNION { { [i \in 1..n |-> [ question_index |-> i - 1,
                                student_answer |-> IF b[i] THEN "A" ELSE "B",
                                correct_answer |-> "A",
                                is_correct |-> b[i],
                                difficulty |-> "medium" ]] :
              b \in [1..n -> BOOLEAN] } : n \in 0..MaxTotal }

LevelInit ==
    /\ \E rs \in ResponseLists, l \in StudentLevel :
          context = [DefaultContext EXCEPT !.current_state = INITIAL_ASSESSMENT,
                                           !.assessment_responses = rs,
                                           !.student_level = l]
    /\ TutorIdle
    /\ call = NoCall
    /\ chain = <<>>

CalculateStudentLevel ==
    /\ context' = _calculate_student_level(context)
    /\ Called("_calculate_student_level", None, None)

LevelNext == CalculateStudentLevel

LevelSpec == LevelInit /\ [][LevelNext]_vars

----------------------------------------------------------------------------
(* CursorSpec: advance_to_next_topic() called again and again from (0, 0) *)

\* sections per outline and subtopics per section
MaxCursorSections == 3
MaxCursorSubtopics == 3

\* every loaded outline, sections without subtopics included
CursorOutlines ==
    { [loaded |-> TRUE, sections |-> s] :
        s \in UNION { [1..n -> 0..MaxCursorSubtopics] : n \in 0..MaxCursorSections } }

CursorInit ==
    /\ \E o \in CursorOutlines : context = [DefaultContext EXCEPT !.outline = o]
    /\ TutorIdle
    /\ call = NoCall
    /\ chain = <<Cursor(context)>>

\* chain lists the cursor positions visited
AdvanceToNextTopic ==
    LET r == advance_to_next_topic(context) IN
    /\ context' = r.ctx
    /\ call' = [op |-> "advance_to_next_topic", arg |-> None, pre |-> context,
                ret |-> r.ret]
    /\ chain' = IF r.ret THEN Append(chain, Cursor(r.ctx)) ELSE chain
    /\ UNCHANGED <<now, tutorVars>>

CursorNext == AdvanceToNextTopic

CursorSpec == CursorInit /\ [][CursorNext]_vars

\* there is a section and every section has a subtopic
AllSectionsPopulated(ctx) ==
    /\ HasSections(ctx)
    /\ ctx.outline.sections # <<>>
    /\ \A i \in DOMAIN ctx.outline.sections : ctx.outline.sections[i] >= 1

\* C24: when every section has a subtopic, the positions visited are the
\* subtopics in outline order, each once and without a gap; a call returns
\* true exactly when a later subtopic exists, and a call that returns false
\* leaves the cursor where it was, with every subtopic visited.
C24_Traversal ==
    AllSectionsPopulated(context) =>
        /\ \A k \in DOMAIN chain :
              /\ chain[k] \in TopicSet(context)
              /\ { t \in TopicSet(context) : Before(t, chain[k]) }
                    = { chain[m] : m \in 1..(k - 1) }
        /\ Cursor(context) = chain[Len(chain)]
        /\ call.op = "advance_to_next_topic" =>
              /\ call.ret <=> \E t \in TopicSet(context) : Before(Cursor(call.pre), t)
              /\ ~call.ret => /\ context = call.pre
                              /\ { chain[k] : k \in DOMAIN chain } = TopicSet(context)

\* sections of two and one subtopics: all three visited, the next call refused
C24_Witness ==
    /\ context.outline.sections = <<2, 1>>
    /\ chain = << <<0, 0>>, <<0, 1>>, <<1, 0>> >>
    /\ call.op = "advance_to_next_topic"
    /\ call.ret = FALSE
    /\ call.pre = context

\* C25: for every loaded outline, after any number of advance_to_next_topic()
\* calls from (0, 0), the cursor is on a topic or the lesson is complete.
C25_CursorInvariant ==
    get_current_topic(context) # NoTopic \/ is_lesson_complete(context)

----------------------------------------------------------------------------
(* BreakSpec: the since-last-break clock of a running session *)

\* minutes on the clock, and the largest threshold configured
MaxClock == 3

\* a session started at minute 0 with any threshold
BreakInit ==
    /\ \E th \in 0..MaxClock :
          context = [DefaultContext EXCEPT !.break_threshold_minutes = th,
                                           !.current_phase_started_at = 0]
    /\ TutorIdle
    /\ call = NoCall
    /\ chain = <<>>

RecordBreak ==
    /\ context.breaks_taken < MaxBreaks
    /\ context' = record_break(context, now)
    /\ call' = [op |-> "record_break", arg |-> now, pre |-> context, ret |-> None]
    /\ UNCHANGED <<now, tutorVars, chain>>

UpdateTimeTracking ==
    /\ context' = update_time_tracking(context, now)
    /\ call' = [op |-> "update_time_tracking", arg |-> now, pre |-> context,
                ret |-> None]
    /\ UNCHANGED <<now, tutorVars, chain>>

\* a minute passes
ClockTick ==
    /\ now < MaxClock
    /\ now' = now + 1
    /\ UNCHANGED <<context, tutorVars, call, chain>>

BreakNext == RecordBreak \/ UpdateTimeTracking \/ ClockTick

BreakSpec == BreakInit /\ [][BreakNext]_vars

\* what the claim says of one step
BreakClockStep ==
    /\ (call' # call /\ call'.op = "record_break") => ~should_suggest_break(context')
    /\ (~should_suggest_break(context) /\ should_suggest_break(context'))
          => /\ call'.op = "update_time_tracking"
             /\ call' # call
             /\ now - context.current_phase_started_at >= context.break_threshold_minutes

\* C26: right after record_break() should_suggest_break() is false, and it
\* turns true only in an update_time_tracking() that sees the time since the
\* break reach the threshold, for every threshold.
C26_BreakRecording == [][BreakClockStep]_vars

\* C26 (amended): the same, for every threshold greater than zero.
C26_BreakRecordingPositive ==
    [][context.break_threshold_minutes > 0 => BreakClockStep]_vars

\* a break was taken and, the threshold reached again, a break is due again
C26_Witness ==
    /\ call.op = "update_time_tracking"
    /\ context.breaks_taken >= 1
    /\ context.break_threshold_minutes > 0
    /\ ~should_suggest_break(call.pre)
    /\ should_suggest_break(context)

----------------------------------------------------------------------------
(* Properties of the events, checked under Spec *)

\* the events a step emits: the drain adds to the turn's events, a new turn
\* starts a new list
NewEvents ==
    IF pc = "process" THEN SubSeq(events', Len(events) + 1, Len(events')) ELSE events'

\* C27: the state field of an emitted event, when present, is the session's
\* current_state when the event is produced (the state the emitting step
\* starts in or, for an event emitted after the step's transition, ends in).
C27_EventState ==
    [][ events' # events =>
          \A i \in DOMAIN NewEvents :
              NewEvents[i].state \in
                  {None, context.current_state, context'.current_state} ]_vars

----------------------------------------------------------------------------
(* FailSpec: the session of Spec with a language model whose first call of a
   turn may raise.  Nothing in agent/tutor.py catches the exception, so the
   generators unwind and the caller sees it; call.pre keeps the context the
   turn started with. *)

\* _process_current_state up to the first self.llm.complete of the turn: the
\* context committed and the events yielded by then, and whether a call is
\* reached at all
RECURSIVE BeforeFirstCall(_, _, _)
BeforeFirstCall(ctx, ev, d) ==
    LET s == ctx.current_state
        ev1 == Append(ev, Ev("state_change", s))
        current_topic == get_current_topic(ctx)
    IN  CASE s \in {IDLE, SESSION_PAUSED} ->
               [called |-> FALSE, ctx |-> ctx, ev |-> ev1]
          [] s = LESSON_INTRODUCTION /\ current_topic = NoTopic ->
               IF d < RecursionLimit
               THEN BeforeFirstCall(_transition_to(ctx, LESSON_COMPLETE), ev1, d + 1)
               ELSE [called |-> FALSE, ctx |-> ctx, ev |-> ev1]
          [] s = LESSON_INTRODUCTION /\ current_topic # NoTopic ->
               \* topic_progress.append comes before _generate_response
               [called |-> TRUE,
                ctx |-> [ctx EXCEPT !.topic_progress =
                           Append(@, [ topic_index |-> Len(@),
                                       topic |-> current_topic,
                                       examples_shown |-> 0,
                                       practice_problems_attempted |-> 0,
                                       completed |-> FALSE ])],
                ev |-> ev1]
          [] OTHER ->
               \* every other behaviour starts with _generate_response
               [called |-> TRUE, ctx |-> ctx, ev |-> ev1]

\* the outcome of a prefix that reaches no nested _process_current_state
Direct(called, ctx, ev) == [called |-> called, ctx |-> ctx, ev |-> ev]

\* _continue_lesson up to the first model call
ContinueBeforeCall(ctx, ev) ==
    LET next_state == get_next_auto_state(ctx) IN
    IF next_state # None
    THEN BeforeFirstCall(_transition_to(ctx, next_state), ev, 1)
    ELSE Direct(FALSE, ctx, Append(ev, Ev("agent_speak", None)))

\* process_input(user_input) up to the first model call of the turn
InputBeforeCall(ctx, inp, idx) ==
    LET input_type == _classify_input(ctx, inp)
        ev == <<InputReceived(input_type)>>
        qs == ctx.assessment_questions
        Same(r) == [called |-> r.called, ctx |-> r.ctx, ev |-> r.ev, idx |-> idx]
    IN  CASE input_type = "question" ->
               LET ctx1 == [ctx EXCEPT !.pending_student_question = TRUE] IN
               IF is_teaching_state(ctx1)
               THEN Same(BeforeFirstCall(_transition_to(ctx1, ANSWERING_QUESTION), ev, 1))
               ELSE Same(Direct(TRUE, ctx1, ev))
          [] input_type = "confusion" ->
               Same(BeforeFirstCall(
                      _transition_to([ctx EXCEPT !.pending_student_question = TRUE],
                                     HANDLING_CONFUSION), ev, 1))
          [] input_type = "assessment_answer" ->
               IF idx >= Len(qs) THEN Same(ContinueBeforeCall(ctx, ev))
               ELSE LET question == qs[idx + 1]
                        ctx1 == [ctx EXCEPT !.assessment_responses =
                                   Append(@, [ question_index |-> idx,
                                               student_answer |-> inp.text,
                                               correct_answer |-> question.correct_answer,
                                               is_correct |-> _check_answer(inp.text, question),
                                               difficulty |-> question.difficulty ])]
                        ev1 == Append(ev, Ev("assessment_feedback", None))
                    IN  IF idx + 1 < Len(qs)
                        THEN [called |-> FALSE, ctx |-> ctx1,
                              ev |-> Append(ev1, Ev("ask_question", INITIAL_ASSESSMENT)),
                              idx |-> idx + 1]
                        ELSE LET r == BeforeFirstCall(
                                        _transition_to(_calculate_student_level(ctx1),
                                                       ASSESSMENT_REVIEW), ev1, 1)
                             IN  [called |-> r.called, ctx |-> r.ctx, ev |-> r.ev,
                                  idx |-> idx + 1]
          [] input_type = "practice_answer" ->
               Same(Direct(TRUE, ctx, ev))
          [] input_type \in {"continue", "ready"} ->
               Same(ContinueBeforeCall(ctx, ev))
          [] input_type = "end_session" ->
               Same(BeforeFirstCall(
                      _transition_to([ctx EXCEPT !.student_requested_end = TRUE],
                                     SESSION_COMPLETE), ev, 1))
          [] input_type = "take_break" ->
               Same(Direct(FALSE, _transition_to(record_break(ctx, now), SESSION_PAUSED),
                           Append(ev, Ev("session_paused", SESSION_PAUSED))))
          [] input_type = "resume" ->
               Same(BeforeFirstCall(_transition_to(ctx, LESSON_INTRODUCTION), ev, 1))
          [] OTHER ->
               \* _process_conversation
               Same(Direct(TRUE, ctx, ev))

\* self.llm.complete raises in the turn op(arg) whose prefix is r
LLMFailure(op, arg, r) ==
    /\ MayStartTurn
    /\ call.op = "none"
    /\ r.called
    /\ Len(r.ctx.assessment_responses) <= MaxResponses
    /\ context' = r.ctx
    /\ events' = r.ev
    /\ current_assessment_index' = r.idx
    /\ call' = [op |-> op, arg |-> arg, pre |-> context, ret |-> "llm_error"]
    /\ turn_result' = "llm_error"
    /\ pc' = "idle"
    /\ depth' = 0
    /\ after_drain' = "none"
    /\ UNCHANGED <<now, chain>>

FailingStart ==
    /\ context.current_state = IDLE
    /\ LET r == BeforeFirstCall(
                  _transition_to([context EXCEPT !.current_phase_started_at = now],
                                 COURSE_SETUP),
                  <<Ev("session_start", IDLE)>>, 1)
       IN  LLMFailure("start_session", None,
                      [called |-> r.called, ctx |-> r.ctx, ev |-> r.ev,
                       idx |-> current_assessment_index])

FailingInput(inp) ==
    LLMFailure("process_input", inp.text,
               InputBeforeCall(context, inp, current_assessment_index))

FailingResume ==
    LLMFailure("resume_session", None,
               InputBeforeCall([context EXCEPT !.is_paused = FALSE], ResumeText,
                               current_assessment_index))

\* the session runs as in Spec until one turn fails
FailNext ==
    \/ call.op = "none" /\ Next
    \/ FailingStart
    \/ \E inp \in Inputs : FailingInput(inp)
    \/ FailingResume

FailSpec == Init /\ [][FailNext]_vars

\* C28: after a turn whose language-model call failed, current_state,
\* previous_state, the cursor, the topic-progress records and the assessment
\* data are what they were when the turn started
C28_FailureLeavesContext ==
    turn_result = "llm_error" =>
        /\ context.current_state = call.pre.current_state
        /\ context.previous_state = call.pre.previous_state
        /\ Cursor(context) = Cursor(call.pre)
        /\ context.topic_progress = call.pre.topic_progress
        /\ context.assessment_questions = call.pre.assessment_questions
        /\ context.assessment_responses = call.pre.assessment_responses
        /\ context.assessment_score = call.pre.assessment_score
        /\ context.student_level = call.pre.student_level

----------------------------------------------------------------------------
(* RegistrySpec: TutorSessionService serving several requests for one session
   id.  stream_session, process_response and resume_session look the tutor up
   in _active_sessions and hand its generator to the SSE response; nothing in
   the service or the routers takes a lock or marks the session busy.  pc,
   depth and after_drain are the frame of the generator being drained, chain
   holds the frames of the generators suspended at a yield. *)

MaxSuspended == 1

\* the session the registry holds: one section of one subtopic, the default
\* break threshold
RegistryInit ==
    /\ Init
    /\ context.outline = [loaded |-> TRUE, sections |-> <<1>>]
    /\ context.break_threshold_minutes = MaxTime

Frame == [pc |-> pc, depth |-> depth, after_drain |-> after_drain]

\* the turns whose generator has started and has not finished
InFlight == Len(chain) + (IF pc = "idle" THEN 0 ELSE 1)

\* the consumer of a turn stops pulling at
\* "yield TutorEvent("state_change", ...)" while another request is served
SuspendTurn ==
    /\ pc # "idle"
    /\ Len(chain) < MaxSuspended
    /\ chain' = Append(chain, Frame)
    /\ pc' = "idle"
    /\ depth' = 0
    /\ after_drain' = "none"
    /\ UNCHANGED <<context, now, current_assessment_index, turn_result, events, call>>

\* the consumer of a suspended turn pulls the next event
ContinueTurn ==
    /\ pc = "idle"
    /\ chain # <<>>
    /\ pc' = chain[Len(chain)].pc
    /\ depth' = chain[Len(chain)].depth
    /\ after_drain' = chain[Len(chain)].after_drain
    /\ chain' = SubSeq(chain, 1, Len(chain) - 1)
    /\ turn_result' = "none"
    /\ UNCHANGED <<context, now, current_assessment_index, events, call>>

RegistryNext ==
    \/ Next
    \/ SuspendTurn
    \/ ContinueTurn

RegistrySpec == RegistryInit /\ [][RegistryNext]_vars

\* C29: for one session id at most one turn is in flight: no tutor generator
\* runs while an earlier turn's drain is still in progress
C29_OneTurnInFlight == InFlight <= 1

----------------------------------------------------------------------------
(* WorkerSpec: workers/embedding_worker.py, EmbeddingWorker on one event loop.
   context is the worker: _pending_jobs by key and every task created so far,
   a job's correlation_id being the number of its task (uuid4 never repeats);
   events lists the EMBEDDINGS_BUILD_STARTED events of _do_rebuild. *)

MaxJobs == 3
MaxDelay == 2

\* f"{user_email}:{course_id}"
Keys == {"u:c1", "u:c2"}

NoJob == 0

TaskDone(task) == task.status \in {"cancelled", "returned", "done"}

\* task.cancel(): a sleeping task ends at its await and a task that has not
\* started never runs, a rebuilding one gets CancelledError at its next step
Cancel(tasks, i) ==
    [tasks EXCEPT ![i].status =
        IF @ \in {"sleeping", "starting"} THEN "cancelled"
        ELSE IF @ = "rebuilding" THEN "cancelling"
        ELSE @]

schedule_rebuild_mut(w, key, delay, t) ==
    LET existing == w._pending_jobs[key]
        tasks1 == IF existing # NoJob /\ ~TaskDone(w.tasks[existing])
                  THEN Cancel(w.tasks, existing)
                  ELSE w.tasks
        job == [ key |-> key,
                 correlation_id |-> Len(w.tasks) + 1,
                 scheduled_at |-> t,
                 delay |-> delay,
                 status |-> "sleeping" ]
    IN  [ _pending_jobs |-> IF existing # NoJob THEN w._pending_jobs
                            ELSE [w._pending_jobs EXCEPT ![key] = job.correlation_id],
          tasks |-> Append(tasks1, job) ]

schedule_rebuild(w, key, delay, t) ==
    LET existing == w._pending_jobs[key]
        tasks1 == IF existing # NoJob /\ ~TaskDone(w.tasks[existing])
                  THEN Cancel(w.tasks, existing)
                  ELSE w.tasks
        job == [ key |-> key,
                 correlation_id |-> Len(w.tasks) + 1,
                 scheduled_at |-> t,
                 delay |-> delay,
                 status |-> "sleeping" ]
    IN  [ _pending_jobs |-> [w._pending_jobs EXCEPT ![key] = job.correlation_id],
          tasks |-> Append(tasks1, job) ]

BuildStarted(job) ==
    [type |-> "embeddings_build_started", key |-> job.key,
     correlation_id |-> job.correlation_id]

\* EMBEDDINGS_BUILD_COMPLETED or EMBEDDINGS_BUILD_FAILED
BuildEnded(job, outcome) ==
    [type |-> outcome, key |-> job.key, correlation_id |-> job.correlation_id]

Outcomes == {"embeddings_build_completed", "embeddings_build_failed"}

WorkerInit ==
    /\ context = [ _pending_jobs |-> [k \in Keys |-> NoJob], tasks |-> <<>> ]
    /\ now = 0
    /\ events = <<>>
    /\ current_assessment_index = 0
    /\ pc = "idle"
    /\ after_drain = "none"
    /\ depth = 0
    /\ turn_result = "none"
    /\ call = NoCall
    /\ chain = <<>>

ScheduleRebuild(key, delay) ==
    /\ Len(context.tasks) < MaxJobs
    /\ context' = schedule_rebuild(context, key, delay, now)
    /\ UNCHANGED <<now, tutorVars, call, chain>>

\* _delayed_rebuild after "await asyncio.sleep(delay)", up to the first await
\* of _do_rebuild
DelayedRebuild(i) ==
    LET job == context.tasks[i] IN
    /\ job.status = "sleeping"
    /\ now >= job.scheduled_at + job.delay
    /\ IF context._pending_jobs[job.key] = NoJob
          \/ context.tasks[context._pending_jobs[job.key]].correlation_id
                 # job.correlation_id
       THEN /\ context' = [context EXCEPT !.tasks[i].status = "returned"]
            /\ UNCHANGED events
       ELSE /\ context' = [context EXCEPT !.tasks[i].status = "rebuilding"]
            /\ events' = Append(events, BuildStarted(job))
    /\ UNCHANGED <<now, current_assessment_index, pc, after_drain, depth,
                   turn_result, call, chain>>

\* _do_rebuild from the end of process_course_context_s3 (or its exception) on:
\* the status becomes ready or error with the matching event, and "finally"
\* removes the key from _pending_jobs, whichever job it holds
FinishRebuild(i) ==
    LET job == context.tasks[i] IN
    /\ job.status = "rebuilding"
    /\ context' = [context EXCEPT !.tasks[i].status = "done",
                                  !._pending_jobs[job.key] = NoJob]
    /\ \E outcome \in Outcomes : events' = Append(events, BuildEnded(job, outcome))
    /\ UNCHANGED <<now, current_assessment_index, pc, after_drain, depth,
                   turn_result, call, chain>>

\* CancelledError reaches a task inside _do_rebuild at
\* "await asyncio.to_thread(...)": "except Exception" does not catch it, so no
\* status is written and no event emitted, and "finally" runs
DeliverCancel(i) ==
    LET job == context.tasks[i] IN
    /\ job.status = "cancelling"
    /\ context' = [context EXCEPT !.tasks[i].status = "cancelled",
                                  !._pending_jobs[job.key] = NoJob]
    /\ UNCHANGED <<now, tutorVars, call, chain>>

WorkerTick ==
    /\ now < MaxClock
    /\ now' = now + 1
    /\ UNCHANGED <<context, tutorVars, call, chain>>

WorkerNext ==
    \/ \E key \in Keys, delay \in 0..MaxDelay : ScheduleRebuild(key, delay)
    \/ \E i \in DOMAIN context.tasks : DelayedRebuild(i)
    \/ \E i \in DOMAIN context.tasks : FinishRebuild(i)
    \/ \E i \in DOMAIN context.tasks : DeliverCancel(i)
    \/ WorkerTick

WorkerSpec == WorkerInit /\ [][WorkerNext]_vars

\* the tasks schedule_rebuild created for key, in call order
JobsOf(key) == { i \in DOMAIN context.tasks : context.tasks[i].key = key }

\* every call for key but the first arrived before the delay of the call
\* before it had elapsed
Debounced(key) ==
    /\ JobsOf(key) # {}
    /\ \A i, j \in JobsOf(key) :
          (i < j /\ ~ \E m \in JobsOf(key) : i < m /\ m < j) =>
              context.tasks[j].scheduled_at
                  < context.tasks[i].scheduled_at + context.tasks[i].delay

LastJob(key) == context.tasks[CHOOSE i \in JobsOf(key) : \A m \in JobsOf(key) : m <= i]

Rebuilds(key) ==
    SelectSeq(events, LAMBDA e : e.key = key /\ e.type = "embeddings_build_started")

\* C30: when every schedule_rebuild for a key arrives before the delay of the
\* call before it has elapsed, no rebuild runs while the last job sleeps, and
\* once it has woken exactly one rebuild has run, the last call's
C30_Debounce ==
    \A key \in Keys :
        Debounced(key) =>
            IF LastJob(key).status = "sleeping"
            THEN Rebuilds(key) = <<>>
            ELSE /\ LastJob(key).status \in {"rebuilding", "done"}
                 /\ Rebuilds(key) = <<BuildStarted(LastJob(key))>>

C30_Witness ==
    \E key \in Keys :
        /\ Debounced(key)
        /\ Cardinality(JobsOf(key)) >= 2
        /\ LastJob(key).status = "done"
        /\ Rebuilds(key) = <<BuildStarted(LastJob(key))>>

----------------------------------------------------------------------------
(* Properties of the session (Spec), continued *)

\* C31: a completed turn leaves the session in a state with no enabled
\* automatic transition, or in a terminal state
C31_RestsWaiting ==
    (TurnEnded /\ turn_result = "ok") =>
        \/ get_next_auto_state(context) = None
        \/ is_terminal_state(context)

\* the first step of a learner turn (continue/ready, resume, end_session or
\* any other utterance) that takes the session out of its current state
LeavingTurn ==
    /\ \/ \E inp \in Inputs : ProcessInput(inp)
       \/ ResumeSession
    /\ context'.current_state # context.current_state

\* C32: whenever the session rests in answering_question or
\* handling_confusion, some learner input starts a turn that leaves that state
C32_NoInterruptionTrap ==
    (MayStartTurn /\ context.current_state \in {ANSWERING_QUESTION, HANDLING_CONFUSION})
        => ENABLED LeavingTurn

\* lesson_introduction runs in a resume turn that came out of session_paused,
\* a state only break_suggestion leads to, and opens a topic-progress record
ResumedIntroduction ==
    /\ pc = "process"
    /\ TurnOf("resume")
    /\ context.current_state = LESSON_INTRODUCTION
    /\ context.previous_state = SESSION_PAUSED
    /\ Len(context'.topic_progress) = Len(context.topic_progress) + 1

\* C33: the lesson_introduction that follows a taken break and a resume opens
\* a record for a topic that has no record yet
C33_ResumeNextTopic ==
    [][ ResumedIntroduction =>
          \A k \in DOMAIN context.topic_progress :
              context.topic_progress[k].topic
                  # context'.topic_progress[Len(context'.topic_progress)].topic ]_vars

\* C34: resume_session on a session that pause_session paused starts a turn
\* the tutor classifies as resume
C34_ServiceResume ==
    [][ (context.is_paused /\ ResumeSession)
          => events'[1] = InputReceived("resume") ]_vars

----------------------------------------------------------------------------
(* AssessmentPhaseSpec: the initial assessment under any learner input *)

\* process_input while the session is in initial_assessment
AssessmentInput(inp) ==
    /\ context.current_state = INITIAL_ASSESSMENT
    /\ ProcessInput(inp)

AssessmentPhaseNext ==
    \/ \E inp \in Inputs : AssessmentInput(inp)
    \/ Process

AssessmentPhaseSpec == AssessInit /\ [][AssessmentPhaseNext]_vars

\* C35: the number of stored assessment responses equals
\* current_assessment_index and is at most the number of assessment questions
C35_Bookkeeping ==
    /\ Len(context.assessment_responses) = current_assessment_index
    /\ Len(context.assessment_responses) <= Len(context.assessment_questions)

----------------------------------------------------------------------------
(* Properties of the session (Spec), continued *)

----------------------------------------------------------------------------
(* PositionSpec: advance_to_next_topic called at any cursor position of any
   outline, the positions past the end of a section or of the outline
   included *)

PositionInit ==
    /\ \E o \in CursorOutlines \cup {NoOutline},
          s \in 0..MaxCursorSections, j \in 0..MaxCursorSubtopics :
          context = [DefaultContext EXCEPT !.outline = o,
                                           !.current_section_index = s,
                                           !.current_subtopic_index = j]
    /\ TutorIdle
    /\ call = NoCall
    /\ chain = <<Cursor(context)>>

PositionNext == AdvanceToNextTopic

PositionSpec == PositionInit /\ [][PositionNext]_vars

\* C37: is_lesson_complete() is true exactly when advance_to_next_topic()
\* would return false, and a call that returned false was made with the
\* lesson complete and left the cursor where it was
C37_CompleteIffNoAdvance ==
    /\ is_lesson_complete(context) <=> ~advance_to_next_topic(context).ret
    /\ call.op = "advance_to_next_topic" =>
          /\ is_lesson_complete(call.pre) <=> ~call.ret
          /\ ~call.ret => Cursor(context) = Cursor(call.pre)

\* advance_to_next_topic returned false on the last subtopic of an outline
\* it had walked through to the end
C37_Witness ==
    /\ call.op = "advance_to_next_topic"
    /\ ~call.ret
    /\ Len(chain) >= 3
    /\ get_current_topic(context) # NoTopic
    /\ is_lesson_complete(context)

\* the events _do_rebuild emitted for key
KeyEvents(key) == SelectSeq(events, LAMBDA e : e.key = key)

\* the status update_embeddings_status wrote last: "building" goes with the
\* start event, "ready" with the completion event, "error" with the failure
\* event
EmbeddingsStatus(key) ==
    IF KeyEvents(key) = <<>> THEN "none"
    ELSE LET last == KeyEvents(key)[Len(KeyEvents(key))] IN
         CASE last.type = "embeddings_build_started" -> "building"
           [] last.type = "embeddings_build_completed" -> "ready"
           [] last.type = "embeddings_build_failed" -> "error"

\* a task for key has not ended yet
Running(key) == \E i \in JobsOf(key) : ~TaskDone(context.tasks[i])

\* C38: once no task for a key is left running, the rebuild of the last
\* schedule_rebuild call has started and the status is ready or error, not
\* building
C38_RebuildSettles ==
    \A key \in Keys :
        (JobsOf(key) # {} /\ ~Running(key)) =>
            /\ \E n \in DOMAIN events : events[n] = BuildStarted(LastJob(key))
            /\ EmbeddingsStatus(key) \in {"ready", "error"}

----------------------------------------------------------------------------
(* PendingSpec: the worker of WorkerSpec with cancel_rebuild and
   force_rebuild_now *)

\* returns the result and the worker after the call
cancel_rebuild(w, key) ==
    LET existing == w._pending_jobs[key] IN
    IF existing = NoJob THEN [ret |-> FALSE, w |-> w]
    ELSE [ret |-> TRUE,
          w |-> [ _pending_jobs |-> [w._pending_jobs EXCEPT ![key] = NoJob],
                  tasks |-> IF ~TaskDone(w.tasks[existing])
                            THEN Cancel(w.tasks, existing)
                            ELSE w.tasks ]]

\* the task of the new job is _do_rebuild itself, not yet started
force_rebuild_now(w, key, t) ==
    LET w1 == cancel_rebuild(w, key).w
        job == [ key |-> key,
                 correlation_id |-> Len(w1.tasks) + 1,
                 scheduled_at |-> t,
                 delay |-> 0,
                 status |-> "starting" ]
    IN  [ _pending_jobs |-> [w1._pending_jobs EXCEPT ![key] = job.correlation_id],
          tasks |-> Append(w1.tasks, job) ]

CancelRebuild(key) ==
    /\ context' = cancel_rebuild(context, key).w
    /\ UNCHANGED <<now, tutorVars, call, chain>>

ForceRebuildNow(key) ==
    /\ Len(context.tasks) < MaxJobs
    /\ context' = force_rebuild_now(context, key, now)
    /\ UNCHANGED <<now, tutorVars, call, chain>>

\* the task of a forced job runs _do_rebuild up to its first await
StartForced(i) ==
    LET job == context.tasks[i] IN
    /\ job.status = "starting"
    /\ context' = [context EXCEPT !.tasks[i].status = "rebuilding"]
    /\ events' = Append(events, BuildStarted(job))
    /\ UNCHANGED <<now, current_assessment_index, pc, after_drain, depth,
                   turn_result, call, chain>>

PendingNext ==
    \/ WorkerNext
    \/ \E key \in Keys : CancelRebuild(key)
    \/ \E key \in Keys : ForceRebuildNow(key)
    \/ \E i \in DOMAIN context.tasks : StartForced(i)

PendingSpec == WorkerInit /\ [][PendingNext]_vars

is_rebuild_pending(w, key) == w._pending_jobs[key] # NoJob

\* a job for key that was scheduled or force-started and has neither ended
\* nor been cancelled
LiveJob(key) ==
    \E i \in JobsOf(key) :
        context.tasks[i].status \in {"sleeping", "starting", "rebuilding"}

\* C39: is_rebuild_pending is true while a job for the key is scheduled or
\* running and not cancelled; no older job's end removes a newer job's entry
C39_PendingTracked ==
    \A key \in Keys : LiveJob(key) => is_rebuild_pending(context, key)

====
